---- MODULE Spec2Model ----
(***************************************************************************)
(* A model of the file-backed wiki: page creation, page view and page list, *)
(* the YouTube link file and the vote tally, as the HTTP handlers implement *)
(* them, with the failures of the file system calls of a vote.             *)
(*                                                                         *)
(* Strings are sequences of one-character strings; a file is a sequence of *)
(* bytes keyed by its file name inside the directory "pages".              *)
(***************************************************************************)
EXTENDS Integers, Sequences, FiniteSets, TLC

(***************************************************************************)
(* Bounds of the model.                                                    *)
(***************************************************************************)
\* the number of requests of a behaviour that exercises the page handlers
MaxPageReq == 2
\* the number of requests of a behaviour that exercises the link handlers
MaxLinkReq == 2
\* the number of requests of a behaviour that exercises the vote handler
MaxVoteReq == 3
\* the number of requests of a behaviour that exercises all the handlers
MaxMixedReq == 3
\* the longest name drawn from NameAlphabet for POST /create
MaxNameLen == 1
\* the number of requests of a behaviour that creates, links, views and lists pages
MaxStoreReq == 3
\* the number of requests of a behaviour whose file system calls can fail
MaxFaultReq == 2
\* the number of requests of a behaviour whose paths have more or fewer segments
MaxTraversalReq == 2
\* the number of requests of a behaviour that posts every shape of YouTube URL
MaxExtractReq == 1

(***************************************************************************)
(* Characters.                                                             *)
(***************************************************************************)
LowerLetters ==
  {"a","b","c","d","e","f","g","h","i","j","k","l","m",
   "n","o","p","q","r","s","t","u","v","w","x","y","z"}

UpperLetters ==
  {"A","B","C","D","E","F","G","H","I","J","K","L","M",
   "N","O","P","Q","R","S","T","U","V","W","X","Y","Z"}

Digits == {"0","1","2","3","4","5","6","7","8","9"}

\* strings.ToLower, one character
LowerOf ==
  [c \in UpperLetters |->
     CASE c = "A" -> "a" [] c = "B" -> "b" [] c = "C" -> "c" [] c = "D" -> "d"
       [] c = "E" -> "e" [] c = "F" -> "f" [] c = "G" -> "g" [] c = "H" -> "h"
       [] c = "I" -> "i" [] c = "J" -> "j" [] c = "K" -> "k" [] c = "L" -> "l"
       [] c = "M" -> "m" [] c = "N" -> "n" [] c = "O" -> "o" [] c = "P" -> "p"
       [] c = "Q" -> "q" [] c = "R" -> "r" [] c = "S" -> "s" [] c = "T" -> "t"
       [] c = "U" -> "u" [] c = "V" -> "v" [] c = "W" -> "w" [] c = "X" -> "x"
       [] c = "Y" -> "y" [] c = "Z" -> "z"]

\* the sequences over S of length at most n
SeqUpTo(S, n) == UNION {[1..k -> S] : k \in 0..n}

RECURSIVE Concat(_)
\* the concatenation of a sequence of strings
Concat(ss) == IF ss = <<>> THEN <<>> ELSE Head(ss) \o Concat(Tail(ss))

\* the suffix of s that starts at position i
Drop(s, i) == SubSeq(s, i, Len(s))

\* lit occurs in s at position i
HasPrefixAt(s, i, lit) ==
  /\ i + Len(lit) - 1 <= Len(s)
  /\ SubSeq(s, i, i + Len(lit) - 1) = lit

\* strings.Contains
Contains(s, sub) == \E i \in 1..(Len(s) + 1) : HasPrefixAt(s, i, sub)

\* s is a prefix of t
IsPrefix(s, t) == Len(s) <= Len(t) /\ SubSeq(t, 1, Len(s)) = s

\* strings.HasSuffix
HasSuffix(s, suffix) ==
  Len(s) >= Len(suffix) /\ SubSeq(s, Len(s) - Len(suffix) + 1, Len(s)) = suffix

\* strings.TrimSuffix
TrimSuffix(s, suffix) ==
  IF HasSuffix(s, suffix) THEN SubSeq(s, 1, Len(s) - Len(suffix)) ELSE s

(***************************************************************************)
(* helper.go: charchecker.                                                 *)
(***************************************************************************)
\* the complement of the class [^a-z0-9_-]
LegalNameChars == LowerLetters \cup Digits \cup {"_", "-"}

\* illegalCharPattern.MatchString(name)
illegalCharPattern(name) == \E i \in 1..Len(name) : name[i] \notin LegalNameChars

\* a variant of charchecker whose class lacks 0-9
charcheckerMutDigits(name) ==
  \E i \in 1..Len(name) : name[i] \notin (LowerLetters \cup {"_", "-"})

\* charchecker(name) returns an error
charchecker(name) == illegalCharPattern(name)

(***************************************************************************)
(* createPageHandler: the derivation of the slug.                          *)
(***************************************************************************)
\* strings.ToLower
ToLower(s) == [i \in 1..Len(s) |-> IF s[i] \in UpperLetters THEN LowerOf[s[i]] ELSE s[i]]

\* strings.ReplaceAll(s, " ", "-")
ReplaceSpaces(s) == [i \in 1..Len(s) |-> IF s[i] = " " THEN "-" ELSE s[i]]

\* the complement of the class [^a-zA-Z0-9-]
SlugKeptChars == LowerLetters \cup UpperLetters \cup Digits \cup {"-"}

RECURSIVE slugRegexStrip(_)
\* slugRegex.ReplaceAllString(s, "")
slugRegexStrip(s) ==
  IF s = <<>> THEN <<>>
  ELSE IF Head(s) \in SlugKeptChars THEN <<Head(s)>> \o slugRegexStrip(Tail(s))
  ELSE slugRegexStrip(Tail(s))

untitled == <<"u","n","t","i","t","l","e","d">>

\* a variant of SlugOf that does not strip
SlugOfMutKeepUnderscore(name) ==
  LET s == ReplaceSpaces(ToLower(name)) IN IF s = <<>> THEN untitled ELSE s

\* a variant of SlugOf whose fallback is "no name"
SlugOfMutNoName(name) ==
  LET s == slugRegexStrip(ReplaceSpaces(ToLower(name)))
  IN  IF s = <<>> THEN <<"n","o"," ","n","a","m","e">> ELSE s

\* the slug of a name: lines 185-191
SlugOf(name) ==
  LET s == slugRegexStrip(ReplaceSpaces(ToLower(name)))
  IN  IF s = <<>> THEN untitled ELSE s

\* the default body of a new page: line 204
DefaultBodyPrefix ==
  <<"T","h","i","s"," ","i","s"," ","t","h","e"," ","n","e","w"," ",
    "p","a","g","e"," ","f","o","r"," ","*","*">>

DefaultBody(name) == DefaultBodyPrefix \o name \o <<"*","*">>

(***************************************************************************)
(* helper.go: youtubeRegex and extractYouTubeVideoInfo.                    *)
(*   (?:https?:\/\/)?(?:www\.)?                                            *)
(*   (?:youtube\.com\/(?:watch\?v=|embed\/)|youtu\.be\/)([a-zA-Z0-9\-_]+)  *)
(***************************************************************************)
LitHttp == <<"h","t","t","p",":","/","/">>
LitHttps == <<"h","t","t","p","s",":","/","/">>
LitWww == <<"w","w","w",".">>
LitWatch == <<"y","o","u","t","u","b","e",".","c","o","m","/","w","a","t","c","h","?","v","=">>
LitEmbed == <<"y","o","u","t","u","b","e",".","c","o","m","/","e","m","b","e","d","/">>
LitShort == <<"y","o","u","t","u",".","b","e","/">>
EmbedPrefix == <<"h","t","t","p","s",":","/","/","w","w","w",".","y","o","u","t","u","b","e",".","c","o","m","/","e","m","b","e","d","/">>

\* the class [a-zA-Z0-9\-_]
\* a variant of VideoIDChars without the underscore
VideoIDCharsMutNoUnderscore == LowerLetters \cup UpperLetters \cup Digits \cup {"-"}

\* the class [a-zA-Z0-9\-_] of the capturing group
VideoIDChars == LowerLetters \cup UpperLetters \cup Digits \cup {"-", "_"}

\* the positions at which the rest of the pattern may start when lit is optional at i
AfterOptional(t, i, lits) ==
  {i} \cup {i + Len(l) : l \in {m \in lits : HasPrefixAt(t, i, m)}}

\* the positions at which the capturing group may start for a match that starts at i
GroupStarts(t, i) ==
  LET afterScheme == AfterOptional(t, i, {LitHttp, LitHttps})
      afterWww == UNION {AfterOptional(t, j, {LitWww}) : j \in afterScheme}
      afterHost == UNION {{j + Len(l) : l \in {m \in {LitWatch, LitEmbed, LitShort} :
                                                   HasPrefixAt(t, j, m)}} : j \in afterWww}
  IN  {k \in afterHost : k <= Len(t) /\ t[k] \in VideoIDChars}

RECURSIVE IDRun(_, _)
\* the longest run of video-ID characters of t that starts at k (the greedy +)
IDRun(t, k) ==
  IF k > Len(t) \/ t[k] \notin VideoIDChars THEN <<>>
  ELSE <<t[k]>> \o IDRun(t, k + 1)

\* youtubeRegex.FindStringSubmatch(text): <<>> when there is no match, else
\* <<the matched text, the video ID>> of the leftmost match. A match that starts
\* at i has one parse (the alternatives start with different characters), so the
\* group start is unique.
FindStringSubmatch(t) ==
  LET starts == {i \in 1..Len(t) : GroupStarts(t, i) # {}}
  IN  IF starts = {} THEN <<>>
      ELSE LET i == CHOOSE j \in starts : \A o \in starts : j <= o
               k == CHOOSE g \in GroupStarts(t, i) : \A o \in GroupStarts(t, i) : g <= o
           IN  <<SubSeq(t, i, k + Len(IDRun(t, k)) - 1), IDRun(t, k)>>

\* a variant of extractYouTubeVideoInfo that returns the text in place of the embed URL
extractMutRawURL(text) ==
  LET matches == FindStringSubmatch(text)
  IN  IF Len(matches) > 1 THEN <<text, matches[2]>> ELSE << <<>>, <<>> >>

\* extractYouTubeVideoInfo(text) = <<embedURL, videoID>>
extractYouTubeVideoInfo(text) ==
  LET matches == FindStringSubmatch(text)
  IN  IF Len(matches) > 1 THEN <<EmbedPrefix \o matches[2], matches[2]>>
      ELSE << <<>>, <<>> >>

\* main.go: processYouTubeURL(text), the embed URL alone
processYouTubeURL(text) == extractYouTubeVideoInfo(text)[1]

(***************************************************************************)
(* strings.Split on a one-character separator.                             *)
(***************************************************************************)
RECURSIVE SplitFrom(_, _, _)
SplitFrom(s, sep, acc) ==
  IF s = <<>> THEN <<acc>>
  ELSE IF Head(s) = sep THEN <<acc>> \o SplitFrom(Tail(s), sep, <<>>)
  ELSE SplitFrom(Tail(s), sep, Append(acc, Head(s)))

Split(s, sep) == SplitFrom(s, sep, <<>>)

(***************************************************************************)
(* encoding/json for map[string]int: Marshal writes the keys in sorted     *)
(* order, Unmarshal parses an object of string keys and integer values.    *)
(***************************************************************************)
\* the bytes of the key characters, in increasing order
AsciiOrder ==
  <<"-",".","/","0","1","2","3","4","5","6","7","8","9",
    "A","B","C","D","E","F","G","H","I","J","K","L","M",
    "N","O","P","Q","R","S","T","U","V","W","X","Y","Z","_",
    "a","b","c","d","e","f","g","h","i","j","k","l","m",
    "n","o","p","q","r","s","t","u","v","w","x","y","z">>

ByteRank(c) == CHOOSE i \in 1..Len(AsciiOrder) : AsciiOrder[i] = c

RECURSIVE StringLess(_, _)
\* a < b as Go strings
StringLess(a, b) ==
  IF b = <<>> THEN FALSE
  ELSE IF a = <<>> THEN TRUE
  ELSE IF Head(a) = Head(b) THEN StringLess(Tail(a), Tail(b))
  ELSE ByteRank(Head(a)) < ByteRank(Head(b))

RECURSIVE SortedKeys(_)
SortedKeys(S) ==
  IF S = {} THEN <<>>
  ELSE LET m == CHOOSE k \in S : \A o \in S \ {k} : StringLess(k, o)
       IN  <<m>> \o SortedKeys(S \ {m})

DigitChars == <<"0","1","2","3","4","5","6","7","8","9">>

DigitValue(c) == (CHOOSE i \in 1..10 : DigitChars[i] = c) - 1

RECURSIVE NatToString(_)
NatToString(n) ==
  IF n < 10 THEN <<DigitChars[n + 1]>>
  ELSE NatToString(n \div 10) \o <<DigitChars[(n % 10) + 1]>>

\* strconv for an int
IntToString(n) == IF n < 0 THEN <<"-">> \o NatToString(-n) ELSE NatToString(n)

RECURSIVE StringToNat(_, _)
StringToNat(ds, acc) ==
  IF ds = <<>> THEN acc ELSE StringToNat(Tail(ds), 10 * acc + DigitValue(Head(ds)))

\* the empty map[string]int
EmptyVotes == [k \in {} |-> 0]

RECURSIVE MarshalMembers(_, _)
MarshalMembers(m, keys) ==
  IF keys = <<>> THEN <<>>
  ELSE <<"\"">> \o Head(keys) \o <<"\"", ":">> \o IntToString(m[Head(keys)])
       \o (IF Len(keys) > 1 THEN <<",">> ELSE <<>>)
       \o MarshalMembers(m, Tail(keys))

\* json.Marshal(votes)
Marshal(m) == <<"{">> \o MarshalMembers(m, SortedKeys(DOMAIN m)) \o <<"}">>

\* the result of a failed json.Unmarshal
UnmarshalError == [ok |-> FALSE, votes |-> EmptyVotes]

RECURSIVE DigitRun(_, _)
DigitRun(b, i) ==
  IF i > Len(b) \/ b[i] \notin Digits THEN <<>> ELSE <<b[i]>> \o DigitRun(b, i + 1)

\* votes with votes[k] = v (a repeated key keeps the last value)
MapPut(m, k, v) == [x \in DOMAIN m \cup {k} |-> IF x = k THEN v ELSE m[x]]

RECURSIVE UnmarshalMembers(_, _, _)
\* the members of the object from position i of b on, added to m
UnmarshalMembers(b, i, m) ==
  IF i > Len(b) \/ b[i] # "\"" THEN UnmarshalError
  ELSE
    LET closing == {j \in (i + 1)..Len(b) : b[j] = "\""} IN
    IF closing = {} THEN UnmarshalError
    ELSE
      LET j == CHOOSE c \in closing : \A o \in closing : c <= o
          key == SubSeq(b, i + 1, j - 1)
          neg == j + 2 <= Len(b) /\ b[j + 2] = "-"
          d == IF neg THEN j + 3 ELSE j + 2
          digits == DigitRun(b, d)
          e == d + Len(digits)
          n == StringToNat(digits, 0)
      IN  IF \/ j + 1 > Len(b) \/ b[j + 1] # ":"
             \/ digits = <<>>
             \/ (Len(digits) > 1 /\ digits[1] = "0")
             \/ e > Len(b)
          THEN UnmarshalError
          ELSE IF b[e] = "," THEN UnmarshalMembers(b, e + 1, MapPut(m, key, IF neg THEN -n ELSE n))
          ELSE IF b[e] = "}" /\ e = Len(b)
               THEN [ok |-> TRUE, votes |-> MapPut(m, key, IF neg THEN -n ELSE n)]
          ELSE UnmarshalError

\* json.Unmarshal(data, &votes), votes being empty before
Unmarshal(b) ==
  IF Len(b) < 2 \/ b[1] # "{" THEN UnmarshalError
  ELSE IF b = <<"{", "}">> THEN [ok |-> TRUE, votes |-> EmptyVotes]
  ELSE UnmarshalMembers(b, 2, EmptyVotes)

(***************************************************************************)
(* The files of the directory "pages" and the file operations the handlers *)
(* use. os.WriteFile opens the file with O_CREATE|O_TRUNC and then writes  *)
(* at offset 0 of its own descriptor: two system calls.                    *)
(***************************************************************************)
DotTxt == <<".","t","x","t">>
DotYoutubeTxt == <<".","y","o","u","t","u","b","e",".","t","x","t">>
DotVotesJson == <<".","v","o","t","e","s",".","j","s","o","n">>

\* filepath.Join("pages", slug+".txt"), relative to the directory pages
PageFile(slug) == slug \o DotTxt
\* filepath.Join("pages", slug+".youtube.txt")
YoutubeFile(slug) == slug \o DotYoutubeTxt
\* filepath.Join("pages", slug+".votes.json")
VotesFile(slug) == slug \o DotVotesJson

\* a variant of Exists that finds no file
ExistsMutNever(fs, f) == FALSE

\* os.Stat(f) returns no error
Exists(fs, f) == f \in DOMAIN fs

\* open(f, O_WRONLY|O_CREATE|O_TRUNC)
OpenTrunc(fs, f) == [x \in DOMAIN fs \cup {f} |-> IF x = f THEN <<>> ELSE fs[x]]

\* open(f, O_WRONLY|O_CREATE|O_APPEND)
OpenAppend(fs, f) == [x \in DOMAIN fs \cup {f} |-> IF x = f /\ ~Exists(fs, f) THEN <<>> ELSE fs[x]]

\* write(fd, data) on a descriptor at offset 0
WriteAtStart(fs, f, data) ==
  [fs EXCEPT ![f] = data \o Drop(@, Len(data) + 1)]

\* write(fd, data) on a descriptor opened with O_APPEND
WriteAtEnd(fs, f, data) == [fs EXCEPT ![f] = @ \o data]

(***************************************************************************)
(* The requests of the model. A behaviour exercises one group of handlers  *)
(* (its workload), with the inputs of that group.                          *)
(***************************************************************************)
\* the goroutines that serve requests concurrently
Procs == {"r1", "r2"}

Workloads ==
  {"pages", "links", "votes", "mixed", "store", "faults", "traversal", "extract"}

NameAlphabet == {"a", "7", "_", "-", "B", " "}

MyNewPage == <<"M","y"," ","N","e","w"," ","P","a","g","e","!">>
MyNewPageSlug == <<"m","y","-","n","e","w","-","p","a","g","e">>

\* the names posted to /create
Names ==
  SeqUpTo(NameAlphabet, MaxNameLen)
  \cup {MyNewPage, MyNewPageSlug, <<"p","7">>, <<"a","!">>, <<"a","_">>, <<"_","_">>}

ApiVote == <<"/","a","p","i","/","v","o","t","e","/">>
ApiPage == <<"/","a","p","i","/","p","a","g","e","/">>
SaveYoutube == <<"/","s","a","v","e","-","y","o","u","t","u","b","e">>
PagePrefix == <<"/","p","a","g","e","/">>
upvote == <<"u","p","v","o","t","e">>
downvote == <<"d","o","w","n","v","o","t","e">>
sideways == <<"s","i","d","e","w","a","y","s">>

\* the slugs used in request paths
PathSlugs == {<<"a">>}
\* the video IDs used in request paths
PathVideoIDs == {<<"x">>, <<"y","2">>}

\* /api/vote/{slug}/{videoID}/{action}, the route the handler documents
DocumentedVotePath(slug, videoID, action) ==
  ApiVote \o slug \o <<"/">> \o videoID \o <<"/">> \o action

DocumentedVotePaths ==
  {DocumentedVotePath(s, v, a) : s \in PathSlugs, v \in PathVideoIDs, a \in {upvote, downvote}}

\* the paths of the requests routed to youtubeVoteHandler
VotePaths ==
  DocumentedVotePaths
  \cup {ApiVote \o v \o <<"/">> \o a : v \in PathVideoIDs, a \in {upvote, downvote, sideways}}
  \cup {ApiVote \o <<"x">>}

\* the paths of the requests routed to youtubeSaveHandler
SavePaths == {ApiPage \o s \o SaveYoutube : s \in PathSlugs}

abc123 == <<"a","b","c","1","2","3">>
UrlShort == LitHttps \o LitShort \o abc123
UrlWatch == LitWww \o LitWatch \o abc123
UrlEmbed == LitHttp \o LitEmbed \o <<"x">>
NotAUrl == <<"n","o","t"," ","a"," ","u","r","l">>
TwoLines == <<"h","i","\n","y","o","u","t","u",".","b","e","/","x">>

\* the URLs of the supported shapes among the texts posted as youtube_url
ValidUrls == {UrlShort, UrlWatch, UrlEmbed}
\* the texts posted as youtube_url
SaveTexts == ValidUrls \cup {NotAUrl, TwoLines}

\* the paths of the requests routed to pageViewHandler
ViewPaths == {PagePrefix \o s : s \in PathSlugs \cup {untitled}}

\* the video IDs posted in every shape
ShapeVideoIDs == {<<"Q", "4">>, <<"-", "_">>, abc123}
\* the supported shapes of the URL of a video ID: youtube.com/watch?v=ID,
\* youtube.com/embed/ID and youtu.be/ID, each with or without scheme and www.
ShapesOf(id) ==
  {scheme \o www \o host \o id :
     scheme \in {<<>>, LitHttp, LitHttps}, www \in {<<>>, LitWww},
     host \in {LitWatch, LitEmbed, LitShort}}
\* texts without a YouTube reference
NoMatchTexts == {NotAUrl, <<>>, LitHttps \o LitShort, LitHttps \o LitWww \o LitEmbed \o <<"!">>}
\* the texts posted as youtube_url by a behaviour that posts every shape
ShapeTexts == UNION {ShapesOf(id) : id \in ShapeVideoIDs} \cup NoMatchTexts

aDotYoutube == <<"a",".","y","o","u","t","u","b","e">>
DotDot == <<".", ".">>

\* the paths that the mux hands to pageViewHandler beyond /page/{slug}: it cleans
\* the path of every request but a CONNECT
OddViewPaths ==
  {PagePrefix \o <<"b","/","a">>, PagePrefix, PagePrefix \o <<"a","/">>, PagePrefix \o DotDot}
\* paths that the mux hands to youtubeSaveHandler beyond /api/page/{slug}/save-youtube
OddSavePaths == {ApiPage \o <<"a","/","b">>, ApiPage}
\* a path that the mux hands to youtubeVoteHandler, of six parts
OddVotePath == ApiVote \o <<"x","/">> \o upvote \o <<"/","b">>

\* the inputs of each workload
NamesOf(w) ==
  CASE w = "pages" -> Names [] w = "mixed" -> {<<"a">>, <<"a","_">>}
    [] w \in {"store", "traversal"} -> {<<"a">>} [] OTHER -> {}
\* the texts posted to the youtubeSaveHandler that replaces the link file
TextsOf(w) == CASE w = "links" -> SaveTexts [] w = "mixed" -> {UrlShort} [] OTHER -> {}
\* the texts posted to the youtubeSaveHandler that appends to the link file
AppendTextsOf(w) ==
  CASE w = "links" -> SaveTexts [] w \in {"mixed", "traversal"} -> {UrlShort}
    [] w = "store" -> {TwoLines} [] w = "extract" -> ShapeTexts [] OTHER -> {}
SavePathsOf(w) == IF w = "traversal" THEN OddSavePaths ELSE SavePaths
VotePathsOf(w) ==
  CASE w = "votes" -> VotePaths [] w = "mixed" -> {ApiVote \o <<"x","/">> \o upvote}
    [] w = "faults" -> {ApiVote \o <<"x","/">> \o upvote}
    [] w = "traversal" -> {OddVotePath} [] OTHER -> {}
ViewPathsOf(w) ==
  CASE w = "pages" -> ViewPaths [] w = "mixed" -> {PagePrefix \o <<"a">>}
    [] w = "store" -> {PagePrefix \o <<"a">>, PagePrefix \o aDotYoutube}
    [] w = "traversal" -> OddViewPaths [] OTHER -> {}
\* the paths of the requests routed to indexHandler
IndexPathsOf(w) == IF w = "store" THEN {<<"/">>} ELSE {}
\* the errors of os.ReadFile on a file that exists
ReadErrsOf(w) == IF w = "faults" THEN {"nil", "EACCES"} ELSE {"nil"}
\* the errors of the open and of the write of os.WriteFile
WriteErrsOf(w) == IF w = "faults" THEN {"ENOSPC"} ELSE {}
BudgetOf(w) ==
  CASE w = "pages" -> MaxPageReq [] w = "links" -> MaxLinkReq
    [] w = "votes" -> MaxVoteReq [] w = "store" -> MaxStoreReq
    [] w = "faults" -> MaxFaultReq [] w = "traversal" -> MaxTraversalReq
    [] w = "extract" -> MaxExtractReq [] OTHER -> MaxMixedReq

StatusOK == 200
StatusFound == 302
StatusSeeOther == 303
StatusBadRequest == 400
StatusNotFound == 404
StatusInternalServerError == 500

(***************************************************************************)
(* State.                                                                  *)
(***************************************************************************)
VARIABLES
  workload, \* the group of handlers this behaviour exercises
  files,    \* the directory pages: file name -> bytes
  pc,       \* the position of each request goroutine in its handler
  local,    \* the local variables and the response of each request
  nreq,     \* the number of requests started
  counted,  \* history: <<slug, videoID>> -> the up- and downvotes answered 200
  raced,    \* history: the slugs on which two vote requests overlapped
  saved,    \* history: slug -> the texts written to its link file, in write order
  created   \* history: slug -> the bodies of the creates answered 303, in answer order

vars == <<workload, files, pc, local, nreq, counted, raced, saved, created>>

Idle ==
  [op |-> "none", name |-> <<>>, path |-> <<>>, text |-> <<>>, slug |-> <<>>,
   videoID |-> <<>>, action |-> <<>>, votes |-> EmptyVotes, data |-> <<>>,
   status |-> 0, msg |-> "", body |-> <<>>, embeds |-> <<>>, pageNames |-> <<>>,
   readErr |-> "nil", writeErr |-> "nil", alone |-> TRUE]

Init ==
  /\ workload \in Workloads
  /\ files = [f \in {} |-> <<>>]
  /\ pc = [p \in Procs |-> "idle"]
  /\ local = [p \in Procs |-> Idle]
  /\ nreq = 0
  /\ counted = [k \in {} |-> 0]
  /\ raced = {}
  /\ saved = [k \in {} |-> <<>>]
  /\ created = [k \in {} |-> <<>>]

\* p is between the first and the last system call of its handler
InFlight(p) == pc[p] \notin {"idle", "done"}

\* goroutine p can take a new request: it has answered its last one. The goroutines
\* being interchangeable, r2 serves the requests that arrive while r1 is in flight.
CanBegin(p) ==
  /\ ~InFlight(p)
  /\ nreq < BudgetOf(workload)
  /\ p = "r1" \/ InFlight("r1")

\* a request starts on goroutine p with the locals l and moves to position at:
\* the requests in flight are no longer alone, and p is alone if none is
Begin(p, l, at) ==
  /\ nreq' = nreq + 1
  /\ pc' = [pc EXCEPT ![p] = at]
  /\ local' = [q \in Procs |->
                 IF q = p THEN [l EXCEPT !.alone = \A o \in Procs \ {p} : ~InFlight(o)]
                 ELSE IF InFlight(q) THEN [local[q] EXCEPT !.alone = FALSE]
                 ELSE local[q]]

\* the handler of p answers with status and message
Answer(l, status, msg) == [l EXCEPT !.status = status, !.msg = msg]

\* the value of m at k, or d when m has no k
Lookup(m, k, d) == IF k \in DOMAIN m THEN m[k] ELSE d

(***************************************************************************)
(* main.go: createPageHandler.                                             *)
(***************************************************************************)
\* lines 172-201: validation, slug, os.Stat
createPageHandler(p, name) ==
  LET l == [Idle EXCEPT !.op = "create", !.name = name]
      slug == SlugOf(name) IN
  /\ CanBegin(p)
  /\ IF charchecker(name)
     THEN Begin(p, Answer(l, StatusBadRequest, "Bad name found"), "done")
     ELSE IF name = <<>> \/ name = <<" ">>
     THEN Begin(p, Answer(l, StatusBadRequest, "Page name is required"), "done")
     ELSE IF Exists(files, PageFile(slug))
     THEN Begin(p, Answer([l EXCEPT !.slug = slug], StatusFound, "redirect"), "done")
     ELSE Begin(p, [l EXCEPT !.slug = slug, !.data = DefaultBody(name)], "createOpen")
  /\ UNCHANGED <<workload, files, counted, raced, saved, created>>

\* line 205, os.WriteFile: open
createOpen(p) ==
  /\ pc[p] = "createOpen"
  /\ files' = OpenTrunc(files, PageFile(local[p].slug))
  /\ pc' = [pc EXCEPT ![p] = "createWrite"]
  /\ UNCHANGED <<workload, local, nreq, counted, raced, saved, created>>

\* lines 205-215, os.WriteFile: write, then the redirect to the new page
createWrite(p) ==
  /\ pc[p] = "createWrite"
  /\ files' = WriteAtStart(files, PageFile(local[p].slug), local[p].data)
  /\ pc' = [pc EXCEPT ![p] = "done"]
  /\ local' = [local EXCEPT ![p] = Answer(@, StatusSeeOther, "created")]
  /\ created' = MapPut(created, local[p].slug,
                       Lookup(created, local[p].slug, <<>>) \o <<local[p].data>>)
  /\ UNCHANGED <<workload, nreq, counted, raced, saved>>

(***************************************************************************)
(* main.go: youtubeSaveHandler, which replaces the link file.              *)
(***************************************************************************)
\* lines 99-126: the slug, the validation, os.WriteFile: open
youtubeSaveHandler(p, path, text) ==
  LET pathParts == Split(path, "/")
      l == [Idle EXCEPT !.op = "save", !.path = path, !.text = text] IN
  /\ CanBegin(p)
  /\ IF Len(pathParts) < 4
     THEN /\ Begin(p, Answer(l, StatusBadRequest, "Invalid URL"), "done")
          /\ files' = files
     ELSE IF processYouTubeURL(text) = <<>>
     THEN /\ Begin(p, Answer([l EXCEPT !.slug = pathParts[4]], StatusBadRequest,
                             "Invalid YouTube URL"), "done")
          /\ files' = files
     ELSE /\ Begin(p, [l EXCEPT !.slug = pathParts[4], !.data = text], "saveWrite")
          /\ files' = OpenTrunc(files, YoutubeFile(pathParts[4]))
  /\ UNCHANGED <<workload, counted, raced, saved, created>>

\* lines 126-136, os.WriteFile: write, then the answer
saveWrite(p) ==
  /\ pc[p] = "saveWrite"
  /\ files' = WriteAtStart(files, YoutubeFile(local[p].slug), local[p].data)
  /\ saved' = MapPut(saved, local[p].slug,
                     Lookup(saved, local[p].slug, <<>>) \o <<local[p].text>>)
  /\ pc' = [pc EXCEPT ![p] = "done"]
  /\ local' = [local EXCEPT ![p] = Answer(@, StatusOK, "YouTube link saved!")]
  /\ UNCHANGED <<workload, nreq, counted, raced, created>>

(***************************************************************************)
(* The revision of youtubeSaveHandler that appends to the link file.       *)
(***************************************************************************)
\* lines 171-200: the slug, the validation, os.OpenFile with O_APPEND|O_CREATE
youtubeSaveHandlerAppend(p, path, text) ==
  LET pathParts == Split(path, "/")
      l == [Idle EXCEPT !.op = "append", !.path = path, !.text = text] IN
  /\ CanBegin(p)
  /\ IF Len(pathParts) < 4
     THEN /\ Begin(p, Answer(l, StatusBadRequest, "Invalid URL"), "done")
          /\ files' = files
     ELSE IF extractYouTubeVideoInfo(text)[1] = <<>>
     THEN /\ Begin(p, Answer([l EXCEPT !.slug = pathParts[4]], StatusBadRequest,
                             "Invalid YouTube URL"), "done")
          /\ files' = files
     ELSE /\ Begin(p, [l EXCEPT !.slug = pathParts[4], !.data = text \o <<"\n">>],
                   "appendWrite")
          /\ files' = OpenAppend(files, YoutubeFile(pathParts[4]))
  /\ UNCHANGED <<workload, counted, raced, saved, created>>

\* lines 209-218: f.WriteString(reqBody.URL + "\n"), then the answer
appendWrite(p) ==
  /\ pc[p] = "appendWrite"
  /\ files' = WriteAtEnd(files, YoutubeFile(local[p].slug), local[p].data)
  /\ saved' = MapPut(saved, local[p].slug,
                     Lookup(saved, local[p].slug, <<>>) \o <<local[p].text>>)
  /\ pc' = [pc EXCEPT ![p] = "done"]
  /\ local' = [local EXCEPT ![p] = Answer(@, StatusOK, "YouTube link saved!")]
  /\ UNCHANGED <<workload, nreq, counted, raced, created>>

(***************************************************************************)
(* youtubeVoteHandler.                                                     *)
(***************************************************************************)
\* the values of slug, videoID and action: lines 114-116
VotePathParts(pathParts) ==
  [slug |-> pathParts[3], videoID |-> pathParts[4], action |-> pathParts[5]]

\* a variant of VoteUpdate that counts an upvote twice
VoteUpdateMutTwice(votes, videoID, action) ==
  MapPut(votes, videoID,
         IF action = upvote THEN Lookup(votes, videoID, 0) + 2
         ELSE Lookup(votes, videoID, 0) - 1)

\* a variant of VoteUpdate that forgets the counts of the other video IDs
VoteUpdateMutForget(votes, videoID, action) ==
  MapPut(EmptyVotes, videoID,
         IF action = upvote THEN Lookup(votes, videoID, 0) + 1
         ELSE Lookup(votes, videoID, 0) - 1)

\* a variant of VoteUpdate that ignores a downvote
VoteUpdateMutKeepOnDown(votes, videoID, action) ==
  MapPut(votes, videoID,
         IF action = upvote THEN Lookup(votes, videoID, 0) + 1
         ELSE Lookup(votes, videoID, 0))

\* lines 137-141: votes[videoID]++ or votes[videoID]--
VoteUpdate(votes, videoID, action) ==
  MapPut(votes, videoID,
         IF action = upvote THEN Lookup(votes, videoID, 0) + 1
         ELSE Lookup(votes, videoID, 0) - 1)

\* a variant of ValidAction that lets every action through
ValidActionMutAny(action) == TRUE

\* line 118: not (action != "upvote" && action != "downvote")
ValidAction(action) == ~(action # upvote /\ action # downvote)

\* line 127, the err of os.ReadFile: the file does not exist, or the read fails
\* with fault
ReadFileErr(fs, f, fault) == IF ~Exists(fs, f) THEN "ENOENT" ELSE fault

\* lines 125-134: the map is empty; when err is nil, json.Unmarshal fills it
LoadVotes(fs, f, err) ==
  IF err = "nil" THEN Unmarshal(fs[f]) ELSE [ok |-> TRUE, votes |-> EmptyVotes]

\* lines 127-134 when the read of a file that exists does not fail
ReadVotes(fs, f) == LoadVotes(fs, f, ReadFileErr(fs, f, "nil"))

\* lines 108-149: the path, the action, os.ReadFile, json.Unmarshal, the update,
\* json.Marshal
youtubeVoteHandler(p, path, fault) ==
  LET pathParts == Split(path, "/")
      l0 == [Idle EXCEPT !.op = "vote", !.path = path] IN
  /\ CanBegin(p)
  /\ IF Len(pathParts) < 5
     THEN Begin(p, Answer(l0, StatusBadRequest, "Invalid URL"), "done") /\ raced' = raced
     ELSE
       LET parts == VotePathParts(pathParts)
           l == [l0 EXCEPT !.slug = parts.slug, !.videoID = parts.videoID,
                           !.action = parts.action]
           err == ReadFileErr(files, VotesFile(parts.slug), fault)
           read == LoadVotes(files, VotesFile(parts.slug), err)
           votes == VoteUpdate(read.votes, parts.videoID, parts.action)
       IN  IF ~ValidAction(parts.action)
           THEN Begin(p, Answer(l, StatusBadRequest, "Invalid action"), "done")
                /\ raced' = raced
           ELSE IF ~read.ok
           THEN Begin(p, Answer([l EXCEPT !.readErr = err], StatusInternalServerError,
                                "Could not process votes"), "done")
                /\ raced' = raced
           ELSE /\ Begin(p, [l EXCEPT !.readErr = err, !.votes = read.votes,
                                      !.data = Marshal(votes)], "voteOpen")
                /\ raced' = IF \E q \in Procs \ {p} :
                                 InFlight(q) /\ local[q].op = "vote"
                                 /\ local[q].slug = parts.slug
                            THEN raced \cup {parts.slug} ELSE raced
  /\ UNCHANGED <<workload, files, counted, saved, created>>

\* line 151, os.WriteFile: open
voteOpen(p) ==
  /\ pc[p] = "voteOpen"
  /\ files' = OpenTrunc(files, VotesFile(local[p].slug))
  /\ pc' = [pc EXCEPT ![p] = "voteWrite"]
  /\ UNCHANGED <<workload, local, nreq, counted, raced, saved, created>>

\* lines 151-155, os.WriteFile: the open fails
voteOpenFail(p, err) ==
  /\ pc[p] = "voteOpen"
  /\ pc' = [pc EXCEPT ![p] = "done"]
  /\ local' = [local EXCEPT ![p] = Answer([@ EXCEPT !.writeErr = err],
                                          StatusInternalServerError, "Could not save vote")]
  /\ UNCHANGED <<workload, files, nreq, counted, raced, saved, created>>

\* lines 151-155, os.WriteFile: the write fails on the file that the open emptied
voteWriteFail(p, err) ==
  /\ pc[p] = "voteWrite"
  /\ pc' = [pc EXCEPT ![p] = "done"]
  /\ local' = [local EXCEPT ![p] = Answer([@ EXCEPT !.writeErr = err],
                                          StatusInternalServerError, "Could not save vote")]
  /\ UNCHANGED <<workload, files, nreq, counted, raced, saved, created>>

\* lines 151-159, os.WriteFile: write, then the answer
voteWrite(p) ==
  LET key == <<local[p].slug, local[p].videoID>> IN
  /\ pc[p] = "voteWrite"
  /\ files' = WriteAtStart(files, VotesFile(local[p].slug), local[p].data)
  /\ counted' = MapPut(counted, key,
                       LET c == Lookup(counted, key, [up |-> 0, down |-> 0])
                       IN  IF local[p].action = upvote THEN [c EXCEPT !.up = @ + 1]
                           ELSE [c EXCEPT !.down = @ + 1])
  /\ pc' = [pc EXCEPT ![p] = "done"]
  /\ local' = [local EXCEPT ![p] = Answer(@, StatusOK, "Vote saved!")]
  /\ UNCHANGED <<workload, nreq, raced, saved, created>>

(***************************************************************************)
(* main.go: pageViewHandler.                                               *)
(***************************************************************************)
RECURSIVE StripTrailingSlashes(_)
StripTrailingSlashes(s) ==
  IF s # <<>> /\ s[Len(s)] = "/" THEN StripTrailingSlashes(SubSeq(s, 1, Len(s) - 1)) ELSE s

\* a variant of Base that keeps the directories of the path
BaseMutKeep(path) == path

\* filepath.Base
Base(path) ==
  IF path = <<>> THEN <<".">>
  ELSE LET t == StripTrailingSlashes(path)
           slashes == {i \in 1..Len(t) : t[i] = "/"}
           last == IF slashes = {} THEN 0 ELSE CHOOSE i \in slashes : \A o \in slashes : o <= i
       IN  IF t = <<>> THEN <<"/">> ELSE Drop(t, last + 1)

RECURSIVE EmbedsOfLines(_)
\* lines 247-251: the embed URL of every line that is not empty
EmbedsOfLines(urls) ==
  IF urls = <<>> THEN <<>>
  ELSE (IF Head(urls) # <<>> THEN <<processYouTubeURL(Head(urls))>> ELSE <<>>)
       \o EmbedsOfLines(Tail(urls))

\* lines 241-252: embedURLs, read from the link file of safeSlug
EmbedURLs(fs, safeSlug) ==
  IF Exists(fs, YoutubeFile(safeSlug))
  THEN EmbedsOfLines(Split(fs[YoutubeFile(safeSlug)], "\n"))
  ELSE <<>>

\* lines 219-268
pageViewHandler(p, path) ==
  LET slug == Drop(path, Len(PagePrefix) + 1)
      safeSlug == Base(slug)
      l == [Idle EXCEPT !.op = "view", !.path = path, !.slug = safeSlug] IN
  /\ CanBegin(p)
  /\ IF ~Exists(files, PageFile(safeSlug))
     THEN Begin(p, Answer(l, StatusNotFound, "404 page not found"), "done")
     ELSE Begin(p, Answer([l EXCEPT !.body = files[PageFile(safeSlug)],
                                    !.embeds = EmbedURLs(files, safeSlug)],
                          StatusOK, "page.html"), "done")
  /\ UNCHANGED <<workload, files, counted, raced, saved, created>>

(***************************************************************************)
(* indexHandler.                                                           *)
(***************************************************************************)
\* os.ReadDir: the names of the entries of the directory, sorted
ReadDir(fs) == SortedKeys(DOMAIN fs)

RECURSIVE PageNamesOf(_)
\* lines 83-90: the names that end in .txt, without the .txt
PageNamesOf(entries) ==
  IF entries = <<>> THEN <<>>
  ELSE (IF HasSuffix(Head(entries), DotTxt) THEN <<TrimSuffix(Head(entries), DotTxt)>>
        ELSE <<>>)
       \o PageNamesOf(Tail(entries))

\* lines 74-98
indexHandler(p, path) ==
  LET l == [Idle EXCEPT !.op = "index", !.path = path,
                        !.pageNames = PageNamesOf(ReadDir(files))] IN
  /\ CanBegin(p)
  /\ Begin(p, Answer(l, StatusOK, "index.html"), "done")
  /\ UNCHANGED <<workload, files, counted, raced, saved, created>>

Next ==
  \/ \E p \in Procs, name \in NamesOf(workload) : createPageHandler(p, name)
  \/ \E p \in Procs : createOpen(p)
  \/ \E p \in Procs : createWrite(p)
  \/ \E p \in Procs, path \in SavePathsOf(workload), text \in TextsOf(workload) :
       youtubeSaveHandler(p, path, text)
  \/ \E p \in Procs : saveWrite(p)
  \/ \E p \in Procs, path \in SavePathsOf(workload), text \in AppendTextsOf(workload) :
       youtubeSaveHandlerAppend(p, path, text)
  \/ \E p \in Procs : appendWrite(p)
  \/ \E p \in Procs, path \in VotePathsOf(workload), fault \in ReadErrsOf(workload) :
       youtubeVoteHandler(p, path, fault)
  \/ \E p \in Procs : voteOpen(p)
  \/ \E p \in Procs, err \in WriteErrsOf(workload) : voteOpenFail(p, err)
  \/ \E p \in Procs : voteWrite(p)
  \/ \E p \in Procs, err \in WriteErrsOf(workload) : voteWriteFail(p, err)
  \/ \E p \in Procs, path \in ViewPathsOf(workload) : pageViewHandler(p, path)
  \/ \E p \in Procs, path \in IndexPathsOf(workload) : indexHandler(p, path)

Spec == Init /\ [][Next]_vars

(***************************************************************************)
(* Claims.                                                                 *)
(***************************************************************************)
\* the goroutine that takes the next request
Beginner == IF InFlight("r1") THEN "r2" ELSE "r1"

\* this step is the first step of a request on goroutine p
Began(p) == nreq' = nreq + 1 /\ p = Beginner

\* the persisted tally of a page
Tally(slug) == ReadVotes(files, VotesFile(slug))

\* a vote request on the page is between its read and its write
VoteInFlight(slug) ==
  \E p \in Procs : InFlight(p) /\ local[p].op = "vote" /\ local[p].slug = slug

\* the file system calls of this behaviour do not fail
NoFaults == ReadErrsOf(workload) = {"nil"} /\ WriteErrsOf(workload) = {}

\* C1: after a series of N upvotes and M downvotes answered 200 on one page and
\* one video ID, none overlapping another vote on that page and no file system
\* call failing, the persisted tally of the video ID is N - M.
C1_SequentialTally ==
  \A key \in DOMAIN counted :
    (NoFaults /\ key[1] \notin raced /\ ~VoteInFlight(key[1]))
      => /\ Tally(key[1]).ok
         /\ key[2] \in DOMAIN Tally(key[1]).votes
         /\ Tally(key[1]).votes[key[2]] = counted[key].up - counted[key].down

\* one upvote and two downvotes, in sequence, leave -1
C1_Witness ==
  \E key \in DOMAIN counted :
    /\ key[1] \notin raced /\ ~VoteInFlight(key[1])
    /\ counted[key] = [up |-> 1, down |-> 2]
    /\ Tally(key[1]).ok
    /\ Tally(key[1]).votes[key[2]] = -1

\* C2 as claimed: a POST to /api/vote/{slug}/{videoID}/{upvote|downvote} is answered
\* 200 and the handler works on that slug, that video ID and that action.
C2_DocumentedRoute ==
  \A p \in Procs, s \in PathSlugs, v \in PathVideoIDs, a \in {upvote, downvote} :
    (pc[p] = "done" /\ local[p].op = "vote" /\ local[p].path = DocumentedVotePath(s, v, a))
      => /\ local[p].status = StatusOK
         /\ local[p].slug = s
         /\ local[p].videoID = v
         /\ local[p].action = a

\* C3: the vote is an unlocked read-modify-write, the last write wins: the write
\* of a vote, when none of its file system calls fails, leaves, in a tally that
\* parses, the count that this vote read plus or minus one, whatever the other
\* requests wrote since it read.
C3_LastWriteWins ==
  [][\A p \in Procs :
       (/\ pc[p] = "voteWrite" /\ pc'[p] = "done"
        /\ local'[p].readErr \in {"nil", "ENOENT"} /\ local'[p].writeErr = "nil")
         => LET after == ReadVotes(files', VotesFile(local[p].slug))
            IN  /\ local'[p].status = StatusOK
                /\ after.ok =>
                     /\ local[p].videoID \in DOMAIN after.votes
                     /\ after.votes[local[p].videoID] =
                          Lookup(local[p].votes, local[p].videoID, 0)
                          + (IF local[p].action = upvote THEN 1 ELSE -1)]_vars

\* two overlapping upvotes on one page and one video ID are both answered 200 and
\* the tally counts one of them
C3_Witness ==
  \E key \in DOMAIN counted :
    /\ \A p \in Procs :
         /\ pc[p] = "done" /\ local[p].op = "vote" /\ local[p].status = StatusOK
         /\ <<local[p].slug, local[p].videoID>> = key /\ local[p].action = upvote
         /\ ~local[p].alone
    /\ counted[key] = [up |-> 2, down |-> 0]
    /\ Tally(key[1]).ok
    /\ Tally(key[1]).votes[key[2]] = 1

\* the record of a link: the raw URL and a newline
LinkRecord(text) == text \o <<"\n">>

\* the orders of n records
Orders(n) == {f \in [1..n -> 1..n] : \A i, j \in 1..n : i # j => f[i] # f[j]}

\* C4 as claimed: at all times the link file of a page is a concatenation of the
\* records "raw URL, newline" of the saves answered 200 on that page, each record
\* once and whole.
C4_WholeRecords ==
  \A slug \in PathSlugs :
    LET texts == Lookup(saved, slug, <<>>) IN
    IF YoutubeFile(slug) \in DOMAIN files
    THEN \E order \in Orders(Len(texts)) :
           files[YoutubeFile(slug)] =
             Concat([i \in 1..Len(texts) |-> LinkRecord(texts[order[i]])])
    ELSE texts = <<>>

\* the raw URLs stored for a page: the lines of its link file that are not empty
RawURLs(fs, slug) ==
  IF YoutubeFile(slug) \in DOMAIN fs
  THEN SelectSeq(Split(fs[YoutubeFile(slug)], "\n"), LAMBDA line : line # <<>>)
  ELSE <<>>

\* C5 as claimed: the link list only grows: every step keeps the stored raw URLs
\* as a prefix of the stored raw URLs after it, and a save answered 200 adds its
\* URL at the end, present already or not.
C5_AppendOnly ==
  [][\A slug \in PathSlugs :
       /\ IsPrefix(RawURLs(files, slug), RawURLs(files', slug))
       /\ \A p \in Procs :
            (/\ pc[p] \in {"saveWrite", "appendWrite"} /\ pc'[p] = "done"
             /\ local[p].slug = slug /\ local[p].text \in ValidUrls)
              => RawURLs(files', slug) = RawURLs(files, slug) \o <<local[p].text>>]_vars

\* the video ID that each URL of ValidUrls names
NamedVideoID(url) ==
  CASE url = UrlShort -> abc123 [] url = UrlWatch -> abc123 [] url = UrlEmbed -> <<"x">>

\* C6: a save of a text without a YouTube reference is answered 400 and changes no
\* file; a save of a valid URL, alone, on a page whose link file is empty or new,
\* is answered 200 and the links of the page are then exactly the embed URL
\* https://www.youtube.com/embed/{videoID} of that URL.
C6_InvalidAndFirstLink ==
  [][\A p \in Procs :
       /\ (Began(p) /\ local'[p].op \in {"save", "append"} /\ local'[p].text = NotAUrl)
            => /\ pc'[p] = "done"
               /\ local'[p].status = StatusBadRequest
               /\ local'[p].msg = "Invalid YouTube URL"
               /\ files' = files
       /\ (/\ pc[p] \in {"saveWrite", "appendWrite"} /\ pc'[p] = "done"
           /\ local[p].alone /\ local[p].text \in ValidUrls
           /\ files[YoutubeFile(local[p].slug)] = <<>>)
            => /\ local'[p].status = StatusOK
               /\ EmbedURLs(files', local[p].slug)
                    = <<EmbedPrefix \o NamedVideoID(local[p].text)>>]_vars

\* https://youtu.be/abc123 appended to a page without links
C6_Witness ==
  \E p \in Procs :
    /\ pc[p] = "done" /\ local[p].op = "append" /\ local[p].status = StatusOK
    /\ local[p].text = UrlShort
    /\ Lookup(saved, local[p].slug, <<>>) = <<UrlShort>>
    /\ EmbedURLs(files, local[p].slug) = <<EmbedPrefix \o abc123>>

\* C7 as claimed: create("My New Page!") succeeds with the slug my-new-page and a
\* body that contains the name.
C7_MyNewPage ==
  \A p \in Procs :
    (pc[p] = "done" /\ local[p].op = "create" /\ local[p].name = MyNewPage)
      => /\ local[p].status \in {StatusFound, StatusSeeOther}
         /\ local[p].slug = MyNewPageSlug
         /\ PageFile(MyNewPageSlug) \in DOMAIN files
         /\ Contains(files[PageFile(MyNewPageSlug)], MyNewPage)

\* C8: a create whose slug has a page already is answered with the redirect 302
\* in its first step and changes no file, whatever the name; a create that runs
\* alone and finds no page writes the default body, which contains the name as
\* given, and is answered 303.
C8_CreateOrRedirect ==
  [][\A p \in Procs :
       /\ (/\ Began(p) /\ local'[p].op = "create"
           /\ local'[p].status # StatusBadRequest
           /\ PageFile(local'[p].slug) \in DOMAIN files)
            => /\ pc'[p] = "done"
               /\ local'[p].status = StatusFound
               /\ files' = files
       /\ (/\ Began(p) /\ local'[p].op = "create"
           /\ local'[p].status # StatusBadRequest
           /\ PageFile(local'[p].slug) \notin DOMAIN files)
            => pc'[p] = "createOpen" /\ files' = files
       /\ (pc[p] = "createWrite" /\ pc'[p] = "done" /\ local[p].alone)
            => /\ local'[p].status = StatusSeeOther
               /\ files'[PageFile(local[p].slug)]
                    = DefaultBodyPrefix \o local[p].name \o <<"*", "*">>
               /\ Contains(files'[PageFile(local[p].slug)], local[p].name)
               /\ \A f \in DOMAIN files \ {PageFile(local[p].slug)} : files'[f] = files[f]]_vars

\* the page a was created as "a_"; create("a") is answered 302 and the body is
\* still the one of "a_"
C8_Witness ==
  \E p \in Procs :
    /\ pc[p] = "done" /\ local[p].op = "create" /\ local[p].status = StatusFound
    /\ local[p].name = <<"a">>
    /\ PageFile(<<"a">>) \in DOMAIN files
    /\ files[PageFile(<<"a">>)] = DefaultBodyPrefix \o <<"a", "_", "*", "*">>

\* the name has a character outside [a-z0-9_-]
HasOtherChar(name) ==
  \E i \in 1..Len(name) : name[i] \notin (LowerLetters \cup Digits \cup {"_", "-"})

\* C9 as claimed: create fails with InvalidName (400) exactly for the names that
\* have a character outside [a-z0-9_-].
C9_Original ==
  \A p \in Procs :
    local[p].op = "create" => (local[p].status = StatusBadRequest <=> HasOtherChar(local[p].name))

\* C9, amended: create fails with InvalidName (400) exactly for the empty name and
\* for the names that have a character outside [a-z0-9_-]; the rejected create
\* ends in its first step and writes no file.
C9_NameValidation ==
  [][\A p \in Procs :
       /\ local'[p].op = "create"
            => (local'[p].status = StatusBadRequest
                  <=> (local'[p].name = <<>> \/ HasOtherChar(local'[p].name)))
       /\ (Began(p) /\ local'[p].op = "create" /\ local'[p].status = StatusBadRequest)
            => pc'[p] = "done" /\ files' = files]_vars

\* create("p7") wrote its page while create("a!") and nothing else was rejected
C9_Witness ==
  /\ pc["r1"] = "done" /\ local["r1"].op = "create" /\ local["r1"].name = <<"p", "7">>
  /\ local["r1"].status = StatusSeeOther
  /\ pc["r2"] = "done" /\ local["r2"].op = "create" /\ local["r2"].name = <<"a", "!">>
  /\ local["r2"].status = StatusBadRequest
  /\ DOMAIN files = {PageFile(<<"p", "7">>)}

\* s matches [a-z0-9-]+
MatchesSlugPattern(s) ==
  s # <<>> /\ \A i \in 1..Len(s) : s[i] \in (LowerLetters \cup Digits \cup {"-"})

\* C10: the slug of every create that passed validation, and the name of every
\* page file, match [a-z0-9-]+; a name of underscores alone gives "untitled".
C10_SlugPattern ==
  /\ \A p \in Procs :
       (local[p].op = "create" /\ local[p].status # StatusBadRequest)
         => /\ MatchesSlugPattern(local[p].slug)
            /\ (\A i \in 1..Len(local[p].name) : local[p].name[i] = "_")
                 => local[p].slug = <<"u","n","t","i","t","l","e","d">>
  /\ workload = "pages" =>
       \A f \in DOMAIN files :
         /\ Len(f) > Len(DotTxt)
         /\ SubSeq(f, Len(f) - Len(DotTxt) + 1, Len(f)) = DotTxt
         /\ MatchesSlugPattern(SubSeq(f, 1, Len(f) - Len(DotTxt)))

\* create("__") made the page untitled
C10_Witness ==
  \E p \in Procs :
    /\ pc[p] = "done" /\ local[p].op = "create" /\ local[p].name = <<"_", "_">>
    /\ local[p].status = StatusSeeOther
    /\ local[p].slug = untitled
    /\ PageFile(untitled) \in DOMAIN files

\* the request with the locals l reads or writes files of its slug: a page read
\* always, the others unless they were rejected with 400 before
TouchesFiles(l) ==
  \/ l.op = "view"
  \/ l.op \in {"create", "save", "append", "vote"} /\ l.status # StatusBadRequest

\* the names, relative to the directory pages, of the files that the request
\* with the locals l reads or writes
FilesTouched(l) ==
  CASE l.op = "view" -> {PageFile(l.slug), YoutubeFile(l.slug)}
    [] l.op = "create" -> {PageFile(l.slug)}
    [] l.op \in {"save", "append"} -> {YoutubeFile(l.slug)}
    [] l.op = "vote" -> {VotesFile(l.slug)}
    [] OTHER -> {}

HasSeparator(s) == \E i \in 1..Len(s) : s[i] = "/"

\* joined to the directory pages, the name f is a file directly inside it
DirectlyInside(f) == ~HasSeparator(f) /\ f \notin {<<>>, <<".">>, DotDot}

C12_SlugIdempotent ==
  \A p \in Procs :
    local[p].op = "create"
      => /\ SlugOf(SlugOf(local[p].name)) = SlugOf(local[p].name)
         /\ local[p].status # StatusBadRequest => SlugOf(local[p].slug) = local[p].slug

\* create("a_") made the page a, a slug that differs from the name and is its
\* own slug, after create("B"), whose slug b is its own slug as well
C12_Witness ==
  /\ pc["r1"] = "done" /\ local["r1"].op = "create" /\ local["r1"].name = <<"a", "_">>
  /\ local["r1"].status = StatusSeeOther
  /\ local["r1"].slug = <<"a">> /\ SlugOf(<<"a">>) = <<"a">>
  /\ pc["r2"] = "done" /\ local["r2"].op = "create" /\ local["r2"].name = <<"B">>
  /\ SlugOf(<<"B">>) = <<"b">> /\ SlugOf(<<"b">>) = <<"b">>

\* the entries of a sequence
Range(seq) == {seq[i] : i \in 1..Len(seq)}

\* the slugs whose create wrote no body yet, or wrote it and did not answer yet
BeingCreated == {local[p].slug : p \in {q \in Procs : pc[q] \in {"createOpen", "createWrite"}}}

\* C13 as claimed: the page list that GET / answers is exactly the set of the
\* slugs of the pages created: every slug whose create was answered 303 is
\* listed, and every entry is such a slug or the slug of a create in progress,
\* never the name of a link file or of a tally file.
C13_ListIsPages ==
  [][\A p \in Procs :
       (Began(p) /\ local'[p].op = "index")
         => /\ local'[p].status = StatusOK
            /\ DOMAIN created \subseteq Range(local'[p].pageNames)
            /\ Range(local'[p].pageNames) \subseteq DOMAIN created \cup BeingCreated]_vars

\* C14 as claimed: a page read is answered 404 exactly when no page file exists
\* for its slug; the read of a slug that no create was answered 303 for, and that
\* no create is writing, is answered 404, whatever links and votes were saved;
\* the read of a created page, no create in progress, answers the body written at
\* its creation.
C14_ReadNotFound ==
  [][\A p \in Procs :
       (Began(p) /\ local'[p].op = "view")
         => /\ local'[p].status = StatusNotFound <=> PageFile(local'[p].slug) \notin DOMAIN files
            /\ local'[p].slug \notin DOMAIN created \cup BeingCreated
                 => local'[p].status = StatusNotFound
            /\ (local'[p].slug \in DOMAIN created /\ BeingCreated = {})
                 => /\ local'[p].status = StatusOK
                    /\ local'[p].body = created[local'[p].slug][1]]_vars

\* C15: for every text posted as a link: when it is a video ID in one of the
\* supported shapes (youtube.com/watch?v=ID, youtube.com/embed/ID, youtu.be/ID,
\* with or without scheme and www.), the extractor returns that ID and the embed
\* URL https://www.youtube.com/embed/ID, the same for every shape, the extractor
\* returns the same pair from that embed URL, and the link is accepted; when it
\* has no YouTube reference, the extractor returns two empty strings and the link
\* is rejected with 400.
C15_ExtractorNormalization ==
  \A p \in Procs :
    local[p].op = "append" =>
      LET text == local[p].text
          info == extractYouTubeVideoInfo(text) IN
      /\ \A id \in ShapeVideoIDs :
           text \in ShapesOf(id)
             => /\ info = <<EmbedPrefix \o id, id>>
                /\ extractYouTubeVideoInfo(info[1]) = info
                /\ local[p].status # StatusBadRequest
      /\ text \in NoMatchTexts
           => info = << <<>>, <<>> >> /\ local[p].status = StatusBadRequest

\* youtube.com/watch?v=-_, posted without scheme and www., was appended and the
\* page's link is https://www.youtube.com/embed/-_
C15_Witness ==
  \E p \in Procs :
    /\ pc[p] = "done" /\ local[p].op = "append" /\ local[p].status = StatusOK
    /\ local[p].text = LitWatch \o <<"-", "_">>
    /\ extractYouTubeVideoInfo(local[p].text) = <<EmbedPrefix \o <<"-", "_">>, <<"-", "_">> >>
    /\ files[YoutubeFile(local[p].slug)] = LitWatch \o <<"-", "_", "\n">>
    /\ EmbedURLs(files, local[p].slug) = <<EmbedPrefix \o <<"-", "_">> >>

\* C16: a vote whose action is neither upvote nor downvote is answered
\* 400 "Invalid action" in its first step, which changes no file: no tally file is
\* created or rewritten.
C16_InvalidAction ==
  [][\A p \in Procs :
       (/\ Began(p) /\ local'[p].op = "vote"
        /\ Len(Split(local'[p].path, "/")) >= 5
        /\ local'[p].action \notin {upvote, downvote})
         => /\ pc'[p] = "done"
            /\ local'[p].status = StatusBadRequest
            /\ local'[p].msg = "Invalid action"
            /\ files' = files]_vars

\* after an upvote of x, the vote /api/vote/x/sideways was answered 400 and the
\* tally is still {"x":1}
C16_Witness ==
  \E p \in Procs :
    /\ pc[p] = "done" /\ local[p].op = "vote"
    /\ local[p].path = ApiVote \o <<"x", "/">> \o sideways
    /\ local[p].action = sideways
    /\ local[p].status = StatusBadRequest /\ local[p].msg = "Invalid action"
    /\ \A q \in Procs : ~InFlight(q)
    /\ DOMAIN files = {VotesFile(local[p].slug)}
    /\ files[VotesFile(local[p].slug)] = <<"{", "\"", "x", "\"", ":", "1", "}">>

\* the page that a vote path names: the segment after /api/vote/ in the route
\* /api/vote/{slug}/{videoID}/{action} and in every path that begins like it
PageOfVotePath(path) == Split(path, "/")[4]

\* C17 as claimed: there is one tally per page, and a vote changes the tally of
\* the page it is cast for and no other: the write of a vote changes the tally
\* file of the page that its path names and leaves every other file as it was,
\* and every tally file is the tally file of a page named by a vote.
C17_TallyPerPage ==
  [][\A p \in Procs :
       (pc[p] = "voteWrite" /\ pc'[p] = "done" /\ local'[p].status = StatusOK)
         => LET page == PageOfVotePath(local[p].path) IN
            /\ VotesFile(page) \in DOMAIN files'
            /\ \A f \in DOMAIN files' \ {VotesFile(page)} :
                 f \in DOMAIN files /\ files'[f] = files[f]]_vars

RECURSIVE SuccessfulEmbeds(_)
\* the embed URLs of the lines on which the extractor finds a video, in order
SuccessfulEmbeds(lines) ==
  IF lines = <<>> THEN <<>>
  ELSE (IF FindStringSubmatch(Head(lines)) # <<>>
        THEN <<EmbedPrefix \o FindStringSubmatch(Head(lines))[2]>> ELSE <<>>)
       \o SuccessfulEmbeds(Tail(lines))

\* C18 as claimed: the links that a page read answers are the embed URLs of the
\* lines of the link file on which the extractor finds a video, in file order,
\* none of them the empty string, and no links when there is no link file.
C18_OnlySuccessfulLinks ==
  [][\A p \in Procs :
       (Began(p) /\ local'[p].op = "view" /\ local'[p].status = StatusOK)
         => /\ \A i \in 1..Len(local'[p].embeds) : local'[p].embeds[i] # <<>>
            /\ local'[p].embeds =
                 (IF YoutubeFile(local'[p].slug) \in DOMAIN files
                  THEN SuccessfulEmbeds(Split(files[YoutubeFile(local'[p].slug)], "\n"))
                  ELSE <<>>)]_vars

\* the first step of a vote on goroutine p, past the tests of the path and of
\* the action
VoteBegan(p) ==
  /\ Began(p) /\ local'[p].op = "vote"
  /\ Len(Split(local'[p].path, "/")) >= 5 /\ local'[p].action \in {upvote, downvote}

\* C19 as claimed: a vote treats only an absent tally file as an empty tally. When
\* the tally file exists and cannot be read, or is read and cannot be parsed, the
\* vote is answered 500 in its first step; when the open or the write of the new
\* tally fails, the vote is answered 500; and a vote answered 500 leaves the
\* tally file as it was when the vote began to store.
C19_StorageErrors ==
  [][\A p \in Procs :
       /\ (VoteBegan(p) /\ local'[p].readErr = "ENOENT")
            => /\ VotesFile(local'[p].slug) \notin DOMAIN files
               /\ local'[p].votes = EmptyVotes
               /\ pc'[p] = "voteOpen"
       /\ (VoteBegan(p) /\ local'[p].readErr \notin {"nil", "ENOENT"})
            => /\ pc'[p] = "done"
               /\ local'[p].status = StatusInternalServerError
               /\ files' = files
       /\ (VoteBegan(p) /\ local'[p].readErr = "nil"
            /\ ~Unmarshal(files[VotesFile(local'[p].slug)]).ok)
            => /\ pc'[p] = "done"
               /\ local'[p].status = StatusInternalServerError
               /\ files' = files
       /\ (pc[p] \in {"voteOpen", "voteWrite"} /\ pc'[p] = "done"
            /\ local'[p].writeErr # "nil")
            => /\ local'[p].status = StatusInternalServerError
               /\ local[p].alone
                    => ReadVotes(files', VotesFile(local[p].slug))
                         = [ok |-> TRUE, votes |-> local[p].votes]]_vars

\* C20 as claimed: once a create was answered 303 for a slug, the page file
\* exists and holds the body of that create from then on, and no other create is
\* answered 303 for the slug.
C20_CreatedOnce ==
  \A slug \in DOMAIN created :
    /\ Len(created[slug]) = 1
    /\ PageFile(slug) \in DOMAIN files
    /\ files[PageFile(slug)] = created[slug][1]

\* C21: a vote that runs alone, none of its file system calls failing, reads the
\* stored tally of its page, and its write leaves a tally that differs from the
\* one it read in the entry of its video ID alone: the entries are those read and
\* the one of the video ID, every other video ID has the count it had, the video
\* ID has its count, 0 when it had none, plus or minus one; the write changes no
\* other file.
C21_OnlyItsEntry ==
  [][\A p \in Procs :
       /\ (VoteBegan(p) /\ pc'[p] = "voteOpen" /\ local'[p].readErr \in {"nil", "ENOENT"})
            => local'[p].votes = Tally(local'[p].slug).votes
       /\ (/\ pc[p] = "voteWrite" /\ pc'[p] = "done" /\ local[p].alone
           /\ local'[p].readErr \in {"nil", "ENOENT"} /\ local'[p].writeErr = "nil")
            => LET before == local[p].votes
                   after == ReadVotes(files', VotesFile(local[p].slug))
                   v == local[p].videoID IN
               /\ local'[p].status = StatusOK
               /\ after.ok
               /\ DOMAIN after.votes = DOMAIN before \cup {v}
               /\ \A k \in DOMAIN before \ {v} : after.votes[k] = before[k]
               /\ after.votes[v] = (IF v \in DOMAIN before THEN before[v] ELSE 0)
                                     + (IF local[p].action = upvote THEN 1 ELSE -1)
               /\ \A f \in DOMAIN files' \ {VotesFile(local[p].slug)} :
                    f \in DOMAIN files /\ files'[f] = files[f]]_vars

\* after two upvotes of x, a downvote of y2, alone, read the tally {"x":2} and
\* left {"x":2,"y2":-1}
C21_Witness ==
  \E p \in Procs :
    /\ pc[p] = "done" /\ local[p].op = "vote" /\ local[p].status = StatusOK
    /\ local[p].alone /\ local[p].readErr = "nil"
    /\ local[p].videoID = <<"y", "2">> /\ local[p].action = downvote
    /\ local[p].votes = MapPut(EmptyVotes, <<"x">>, 2)
    /\ Tally(local[p].slug).ok
    /\ Tally(local[p].slug).votes = MapPut(MapPut(EmptyVotes, <<"x">>, 2), <<"y", "2">>, -1)
    /\ files[VotesFile(local[p].slug)]
         = <<"{", "\"", "x", "\"", ":", "2", ",", "\"", "y", "2", "\"", ":", "-", "1", "}">>

====
